---- MODULE Spec2Model ----
(***************************************************************************)
(* Activity execution context of internal/activity.go: the two context     *)
(* attachments (WithActivityTask, WithLocalActivityTask), the accessors     *)
(* that read the attached activityEnvironment, and RecordActivityHeartbeat. *)
(*                                                                          *)
(* A context is an index into ctxs; 0 is context.Background().  A nil       *)
(* pointer / nil slice / nil interface of a string-like reference is the    *)
(* string "nil"; an optional payload or timestamp is None or Some(x).       *)
(***************************************************************************)
EXTENDS Integers, Sequences, FiniteSets, TLC

\* ----------------------------------------------------------------- bounds
MaxCtx == 2          \* contexts created in one behaviour
MaxTime == 2         \* scheduled / started instants are 0..MaxTime
MaxDur == 2          \* timeouts are 0..MaxDur
MaxDetails == 2      \* heartbeat detail lists have at most MaxDetails values
NumProcs == 2        \* goroutines sharing the contexts
MaxCalls == 2        \* RecordActivityHeartbeat invocations in one behaviour

VARIABLES
    ctxs,      \* the context tree: ctxs[c] = [parent, env], env = None or Some(activityEnvironment)
    attached,  \* attached[c]: the arguments the attachment that made c was called with
    thr,       \* thr[p]: goroutine p's position in RecordActivityHeartbeat and what that invocation did
    res,       \* the last accessor call and what it returned
    cnt,       \* totals over the behaviour: heartbeat invocations and Service Invoker calls
    polled     \* the activity task the worker last polled from the service

vars == <<ctxs, attached, thr, res, cnt, polled>>

None == <<>>
Some(x) == <<x>>

Procs == 1..NumProcs

Min(a, b) == IF a < b THEN a ELSE b

\* ------------------------------------------------- collaborators, inputs

\* common.TimeValue: nil timestamp -> the zero time.
TimeValue(t) == IF t = None THEN 0 ELSE t[1]

\* common.DurationValue: nil duration -> 0.
DurationValue(d) == IF d = None THEN 0 ELSE d[1]

\* The collaborators handed to WithActivityTask next to the task.
RemoteArgs == [taskQueue |-> "tq-worker", invoker |-> "invoker1", logger |-> "logger1",
               scope |-> "scope1", dataConverter |-> "dc1", workerStopChannel |-> "stopCh1",
               contextPropagators |-> <<"prop1", "prop2">>, tracer |-> "tracer1"]

\* The collaborators handed to WithLocalActivityTask next to the task.
LocalArgs == [logger |-> "logger2", scope |-> "scope2", dataConverter |-> "dc2"]

\* A workflowservice.PollActivityTaskQueueResponse.
BaseTask == [TaskToken |-> "tok1", ActivityId |-> "act1", ActivityType |-> "ActivityA",
             Attempt |-> 1, ScheduledTime |-> Some(0), StartedTime |-> Some(1),
             ScheduleToCloseTimeout |-> Some(2), StartToCloseTimeout |-> Some(1),
             HeartbeatTimeout |-> Some(1), HeartbeatDetails |-> None,
             WorkflowType |-> "WorkflowA",
             WorkflowExecution |-> [WorkflowId |-> "wf1", RunId |-> "run1"],
             WorkflowNamespace |-> "ns1"]

\* Tasks over every timing with scheduled <= started and non-negative timeouts.
TimingTasks ==
    { [BaseTask EXCEPT !.ScheduledTime = Some(x[1]), !.StartedTime = Some(x[2]),
                       !.ScheduleToCloseTimeout = Some(x[3]),
                       !.StartToCloseTimeout = Some(x[4])] :
        x \in { y \in (0..MaxTime) \X (0..MaxTime) \X (0..MaxDur) \X (0..MaxDur) :
                    y[1] <= y[2] } }

\* Tasks over attempt, run and previous-attempt heartbeat payload: none, one
\* the codec decodes, one it cannot decode, an empty one.
EnvTasks ==
    { [BaseTask EXCEPT !.Attempt = x[1], !.HeartbeatDetails = x[2],
                       !.WorkflowExecution = [WorkflowId |-> "wf1", RunId |-> x[3]]] :
        x \in { <<1, None, "run1">>,
                <<2, Some(<< <<"dc1", "progress">> >>), "run1">>,
                <<2, Some(<< <<"raw", "garbage">> >>), "run2">>,
                <<3, Some(<<>>), "run2">> } }

\* The tasks heartbeats are recorded for.
HBTasks ==
    { [BaseTask EXCEPT !.Attempt = x[1], !.HeartbeatDetails = x[2]] :
        x \in { <<1, None>>, <<2, Some(<< <<"dc1", "progress">> >>)>> } }

\* A localActivityTask (activityID, attempt, params.ActivityType, params.WorkflowInfo).
LocalTasks ==
    { [activityID |-> "7", attempt |-> a,
       params |-> [ActivityType |-> "LocalA",
                   WorkflowInfo |-> [WorkflowType |-> [Name |-> "WorkflowL"],
                                     Namespace |-> "ns2", TaskQueueName |-> "tq-workflow",
                                     WorkflowExecution |-> [ID |-> "wf9", RunID |-> "run9"]]]] :
        a \in {4} }

\* ------------------------------------------------------ Deadline (267-285)

\* computeDeadline without the scheduleToCloseTimeout > 0 test of line 275.
computeDeadlineNoZeroTest(scheduled, started, scheduleToCloseTimeout, startToCloseTimeout) ==
    Min(scheduled + scheduleToCloseTimeout, started + startToCloseTimeout)

\* computeDeadline with line 274 adding the timeout to scheduled, not started.
computeDeadlineFromScheduled(scheduled, started, scheduleToCloseTimeout, startToCloseTimeout) ==
    LET startToCloseDeadline == scheduled + startToCloseTimeout
    IN  IF scheduleToCloseTimeout > 0
        THEN Min(scheduled + scheduleToCloseTimeout, startToCloseDeadline)
        ELSE startToCloseDeadline

\* WithActivityTask, lines 274-285: the minimum of the two deadlines when
\* scheduleToCloseTimeout > 0, else the start-to-close deadline.
computeDeadline(scheduled, started, scheduleToCloseTimeout, startToCloseTimeout) ==
    LET startToCloseDeadline == started + startToCloseTimeout
    IN  IF scheduleToCloseTimeout > 0
        THEN LET scheduleToCloseDeadline == scheduled + scheduleToCloseTimeout
             IN  IF scheduleToCloseDeadline < startToCloseDeadline
                 THEN scheduleToCloseDeadline
                 ELSE startToCloseDeadline
        ELSE startToCloseDeadline

\* log.With(logger, tagActivityID, ..., tagRunID, ...): the logger enriched with fields.
LogWith(logger, activityID, activityType, attempt, workflowType, workflowID, runID) ==
    [base |-> logger,
     fields |-> [ActivityID |-> activityID, ActivityType |-> activityType, Attempt |-> attempt,
                 WorkflowType |-> workflowType, WorkflowID |-> workflowID, RunID |-> runID]]

\* GetAttempt counting attempts from 0.
GetAttemptZeroBased(task) == task.Attempt - 1

\* task.GetAttempt() (line 312).
GetAttempt(task) == task.Attempt

\* The activityEnvironment WithActivityTask builds (lines 296-321).
RemoteEnv(task, a) ==
    [taskToken          |-> task.TaskToken,
     serviceInvoker     |-> a.invoker,
     activityType       |-> [Name |-> task.ActivityType],
     activityID         |-> task.ActivityId,
     workflowExecution  |-> [RunID |-> task.WorkflowExecution.RunId,
                             ID |-> task.WorkflowExecution.WorkflowId],
     logger             |-> LogWith(a.logger, task.ActivityId, task.ActivityType, task.Attempt,
                                    task.WorkflowType, task.WorkflowExecution.WorkflowId,
                                    task.WorkflowExecution.RunId),
     metricsScope       |-> a.scope,
     deadline           |-> computeDeadline(TimeValue(task.ScheduledTime),
                                            TimeValue(task.StartedTime),
                                            DurationValue(task.ScheduleToCloseTimeout),
                                            DurationValue(task.StartToCloseTimeout)),
     heartbeatTimeout   |-> DurationValue(task.HeartbeatTimeout),
     scheduledTime      |-> TimeValue(task.ScheduledTime),
     startedTime        |-> TimeValue(task.StartedTime),
     taskQueue          |-> a.taskQueue,
     dataConverter      |-> a.dataConverter,
     attempt            |-> GetAttempt(task),
     heartbeatDetails   |-> task.HeartbeatDetails,
     workflowType       |-> [Name |-> task.WorkflowType],
     workflowNamespace  |-> task.WorkflowNamespace,
     workerStopChannel  |-> a.workerStopChannel,
     contextPropagators |-> a.contextPropagators,
     tracer             |-> a.tracer,
     isLocalActivity    |-> FALSE]

\* The activityEnvironment WithLocalActivityTask builds (lines 340-352); the
\* fields the literal leaves out hold Go's zero values.
LocalEnv(task, a) ==
    [taskToken          |-> "nil",
     serviceInvoker     |-> "nil",
     activityType       |-> [Name |-> task.params.ActivityType],
     activityID         |-> task.activityID,
     workflowExecution  |-> task.params.WorkflowInfo.WorkflowExecution,
     logger             |-> LogWith(a.logger, task.activityID, task.params.ActivityType,
                                    task.attempt, task.params.WorkflowInfo.WorkflowType.Name,
                                    task.params.WorkflowInfo.WorkflowExecution.ID,
                                    task.params.WorkflowInfo.WorkflowExecution.RunID),
     metricsScope       |-> a.scope,
     deadline           |-> 0,
     heartbeatTimeout   |-> 0,
     scheduledTime      |-> 0,
     startedTime        |-> 0,
     taskQueue          |-> task.params.WorkflowInfo.TaskQueueName,
     dataConverter      |-> a.dataConverter,
     attempt            |-> task.attempt,
     heartbeatDetails   |-> None,
     workflowType       |-> task.params.WorkflowInfo.WorkflowType,
     workflowNamespace  |-> task.params.WorkflowInfo.Namespace,
     workerStopChannel  |-> "nil",
     contextPropagators |-> <<>>,
     tracer             |-> "nil",
     isLocalActivity    |-> TRUE]

\* ------------------------------------------------------------- contexts

Ctxs == DOMAIN ctxs

\* ctx.Value(activityEnvContextKey): the value of the nearest context of the
\* chain that holds one; None when no context of the chain does.
RECURSIVE CtxValue(_)
CtxValue(c) ==
    IF c = 0 THEN None
    ELSE IF ctxs[c].env # None THEN ctxs[c].env
    ELSE CtxValue(ctxs[c].parent)

\* getActivityEnv(ctx): the environment the context carries.
getActivityEnv(c) == CtxValue(c)[1]

\* The contexts the accessors may be called on.
ActivityCtxs == { c \in Ctxs : CtxValue(c) # None }

\* context.WithValue(parent, activityEnvContextKey, env)
WithValue(parent, env) == [parent |-> parent, env |-> Some(env)]

\* The context WithActivityTask returns (line 296).
RemoteCtx(parent, task) == WithValue(parent, RemoteEnv(task, RemoteArgs))

\* LocalCtx with the new environment keeping the task token, heartbeat
\* payload and service invoker of the environment ctx already carries.
LocalCtxMerging(ctx, task) ==
    LET parent == IF ctx = -1 THEN 0 ELSE ctx
        env    == LocalEnv(task, LocalArgs)
    IN  IF CtxValue(parent) = None THEN WithValue(parent, env)
        ELSE WithValue(parent, [env EXCEPT !.taskToken = CtxValue(parent)[1].taskToken,
                                           !.heartbeatDetails = CtxValue(parent)[1].heartbeatDetails,
                                           !.serviceInvoker = CtxValue(parent)[1].serviceInvoker])

\* The context WithLocalActivityTask returns (lines 326-328, 340): a nil ctx
\* (-1) is replaced by Background.
LocalCtx(ctx, task) == WithValue(IF ctx = -1 THEN 0 ELSE ctx, LocalEnv(task, LocalArgs))

\* What the two attachments were called with.
RemoteCall(parent, task) ==
    [kind |-> "remote", parent |-> parent, task |-> task, args |-> RemoteArgs]

LocalCall(ctx, task) ==
    [kind |-> "local", parent |-> IF ctx = -1 THEN 0 ELSE ctx, task |-> task,
     args |-> LocalArgs]

\* WithActivityTask (lines 255-322).
WithActivityTask(parent, task) ==
    /\ Len(ctxs) < MaxCtx
    /\ ctxs' = Append(ctxs, RemoteCtx(parent, task))
    /\ attached' = Append(attached, RemoteCall(parent, task))
    /\ UNCHANGED <<thr, res, cnt, polled>>

\* WithLocalActivityTask (lines 325-354).
WithLocalActivityTask(ctx, task) ==
    /\ Len(ctxs) < MaxCtx
    /\ ctxs' = Append(ctxs, LocalCtx(ctx, task))
    /\ attached' = Append(attached, LocalCall(ctx, task))
    /\ UNCHANGED <<thr, res, cnt, polled>>

\* ------------------------------------------------------------ accessors

\* GetActivityInfo (lines 154-170).
GetActivityInfo(c) ==
    LET env == getActivityEnv(c)
    IN  [ActivityID        |-> env.activityID,
         ActivityType      |-> env.activityType,
         TaskToken         |-> env.taskToken,
         WorkflowExecution |-> env.workflowExecution,
         HeartbeatTimeout  |-> env.heartbeatTimeout,
         Deadline          |-> env.deadline,
         ScheduledTime     |-> env.scheduledTime,
         StartedTime       |-> env.startedTime,
         TaskQueue         |-> env.taskQueue,
         Attempt           |-> env.attempt,
         WorkflowType      |-> env.workflowType,
         WorkflowNamespace |-> env.workflowNamespace]

\* A call of GetActivityInfo by the activity code.
CallGetActivityInfo(c) ==
    /\ res' = [op |-> "GetActivityInfo", ctx |-> c, val |-> GetActivityInfo(c)]
    /\ UNCHANGED <<ctxs, attached, thr, cnt, polled>>

\* HasHeartbeatDetails (lines 173-176).
HasHeartbeatDetails(c) == getActivityEnv(c).heartbeatDetails # None

\* The codec's decode of a payload list into nOut output slots: it fails on
\* a payload it did not produce.
FromPayloads(dc, payloads, nOut) ==
    IF \E i \in 1..Len(payloads) : i <= nOut /\ payloads[i][1] # dc
    THEN "DecodeError" ELSE "nil"

\* The numbers of output slots GetHeartbeatDetails is called with.
OutSlots == {0, 1}

\* GetHeartbeatDetails without the nil test of lines 185-187.
GetHeartbeatDetailsNoNilTest(c, nOut) ==
    LET env == getActivityEnv(c)
        pl  == IF env.heartbeatDetails = None THEN <<>> ELSE env.heartbeatDetails[1]
    IN  [err |-> FromPayloads(env.dataConverter, pl, nOut),
         decodes |-> << [dc |-> env.dataConverter, payload |-> env.heartbeatDetails,
                         outs |-> nOut] >>]

\* GetHeartbeatDetails (lines 183-190): the error returned and the decode
\* calls made on the codec.
GetHeartbeatDetails(c, nOut) ==
    LET env == getActivityEnv(c)
    IN  IF env.heartbeatDetails = None
        THEN [err |-> "ErrNoData", decodes |-> <<>>]
        ELSE [err |-> FromPayloads(env.dataConverter, env.heartbeatDetails[1], nOut),
              decodes |-> << [dc |-> env.dataConverter, payload |-> env.heartbeatDetails,
                              outs |-> nOut] >>]

\* GetActivityLogger (lines 193-196).
GetActivityLogger(c) == getActivityEnv(c).logger

\* GetActivityMetricsScope (lines 199-202).
GetActivityMetricsScope(c) == getActivityEnv(c).metricsScope

\* GetWorkerStopChannel (lines 208-211).
GetWorkerStopChannel(c) == getActivityEnv(c).workerStopChannel

\* Calls of the other accessors by the activity code.
CallHasHeartbeatDetails(c) ==
    /\ res' = [op |-> "HasHeartbeatDetails", ctx |-> c, val |-> HasHeartbeatDetails(c)]
    /\ UNCHANGED <<ctxs, attached, thr, cnt, polled>>

CallGetHeartbeatDetails(c, nOut) ==
    /\ res' = [op |-> "GetHeartbeatDetails", ctx |-> c, outs |-> nOut,
               val |-> GetHeartbeatDetails(c, nOut)]
    /\ UNCHANGED <<ctxs, attached, thr, cnt, polled>>

CallGetActivityLogger(c) ==
    /\ res' = [op |-> "GetActivityLogger", ctx |-> c, val |-> GetActivityLogger(c)]
    /\ UNCHANGED <<ctxs, attached, thr, cnt, polled>>

CallGetActivityMetricsScope(c) ==
    /\ res' = [op |-> "GetActivityMetricsScope", ctx |-> c, val |-> GetActivityMetricsScope(c)]
    /\ UNCHANGED <<ctxs, attached, thr, cnt, polled>>

CallGetWorkerStopChannel(c) ==
    /\ res' = [op |-> "GetWorkerStopChannel", ctx |-> c, val |-> GetWorkerStopChannel(c)]
    /\ UNCHANGED <<ctxs, attached, thr, cnt, polled>>

\* context.WithCancel(parent): a derived context that holds no environment
\* of its own.
WithCancel(parent) ==
    /\ Len(ctxs) < MaxCtx
    /\ ctxs' = Append(ctxs, [parent |-> parent, env |-> None])
    /\ attached' = Append(attached, [kind |-> "derived", parent |-> parent])
    /\ UNCHANGED <<thr, res, cnt, polled>>

\* ------------------------------------------- RecordActivityHeartbeat

\* Values an activity passes as heartbeat details: the nil interface, a
\* value the codec encodes, a value it cannot encode (a channel).
DetailVals == {"nil", "progress", "chan"}

DetailLists == UNION { [1..n -> DetailVals] : n \in 0..MaxDetails }

\* The detail lists the concurrent goroutines report: none, progress, a
\* value the codec cannot encode.
FewDetails == { <<>>, <<"progress">>, <<"chan">> }

\* What the Service Invoker's Heartbeat can return.
InvokerErrs == {"nil", "ActivityTaskCanceledError", "ServiceError"}

\* getDataConverterFromActivityCtx(ctx): the environment's data converter.
getDataConverterFromActivityCtx(c) == getActivityEnv(c).dataConverter

\* encodeArgs(dc, details): the codec's encoding of the whole list, or its error.
encodeArgs(dc, details) ==
    IF \E i \in 1..Len(details) : details[i] = "chan"
    THEN [payload |-> None, err |-> "EncodingFailure"]
    ELSE [payload |-> Some([i \in 1..Len(details) |-> <<dc, details[i]>>]), err |-> "nil"]

\* Line 223 without the early return.
IsNoopNever(env) == FALSE

\* Line 223: the local-activity early return.
IsNoop(env) == env.isLocalActivity

\* Line 230 looking at the first detail only, whatever the length.
NeedsEncodeFirstOnly(details) == Len(details) >= 1 /\ details[1] # "nil"

\* Line 230: the details are encoded unless there are none or a single nil.
NeedsEncode(details) == Len(details) > 1 \/ (Len(details) = 1 /\ details[1] # "nil")

\* Lines 232-234 with the encoding error dropped.
EncodePanicsNever(r) == FALSE

\* Lines 232-234: an encoding error panics.
EncodePanics(r) == r.err # "nil"

\* Line 237 followed by a second send of the same heartbeat.
HeartbeatCallsTwice(env, data) ==
    << [invoker |-> env.serviceInvoker, payload |-> data, skipBatching |-> FALSE],
       [invoker |-> env.serviceInvoker, payload |-> data, skipBatching |-> FALSE] >>

\* Line 237: the calls made on the Service Invoker for one invocation.
HeartbeatCalls(env, data) ==
    << [invoker |-> env.serviceInvoker, payload |-> data, skipBatching |-> FALSE] >>

\* Lines 238-241 without the err != nil test.
HeartbeatLogAlways(c, err) ==
    << [logger |-> GetActivityLogger(c), level |-> "debug",
        msg |-> "RecordActivityHeartbeat with error", err |-> err] >>

\* Lines 238-241: what is logged once the invoker has returned err.
HeartbeatLog(c, err) ==
    IF err # "nil"
    THEN << [logger |-> GetActivityLogger(c), level |-> "debug",
             msg |-> "RecordActivityHeartbeat with error", err |-> err] >>
    ELSE <<>>

\* RecordActivityHeartbeat (lines 221-237), up to the point where the
\* goroutine is inside the Service Invoker's Heartbeat.
RecordActivityHeartbeat(p, c, details) ==
    /\ thr[p].pc # "inInvoker"
    /\ cnt.started < MaxCalls
    /\ LET env == getActivityEnv(c)
           inv == [pc |-> "returned", ctx |-> c, details |-> details, encodes |-> <<>>,
                   data |-> None, sent |-> <<>>, completed |-> 0, logged |-> <<>>,
                   err |-> "nil"]
       IN  IF IsNoop(env)
           THEN /\ thr' = [thr EXCEPT ![p] = inv]
                /\ cnt' = [cnt EXCEPT !.started = @ + 1]
           ELSE LET enc  == NeedsEncode(details)
                    dc   == getDataConverterFromActivityCtx(c)
                    r    == IF enc THEN encodeArgs(dc, details)
                                   ELSE [payload |-> None, err |-> "nil"]
                    encs == IF enc THEN << [dc |-> dc, args |-> details, result |-> r] >>
                                   ELSE <<>>
                IN  IF EncodePanics(r)
                    THEN /\ thr' = [thr EXCEPT ![p] = [inv EXCEPT !.pc = "panicked",
                                                                  !.encodes = encs,
                                                                  !.err = r.err]]
                         /\ cnt' = [cnt EXCEPT !.started = @ + 1, !.remote = @ + 1,
                                               !.aborted = @ + 1]
                    ELSE LET calls == HeartbeatCalls(env, r.payload)
                         IN  /\ thr' = [thr EXCEPT ![p] = [inv EXCEPT !.pc = "inInvoker",
                                                                      !.encodes = encs,
                                                                      !.data = r.payload,
                                                                      !.sent = calls]]
                             /\ cnt' = [cnt EXCEPT !.started = @ + 1, !.remote = @ + 1,
                                                   !.calls = @ + Len(calls)]
    /\ UNCHANGED <<ctxs, attached, res, polled>>

\* The Service Invoker's Heartbeat returns err to goroutine p, which logs
\* it if it is an error and returns (lines 237-242).
HeartbeatReturns(p, err) ==
    /\ thr[p].pc = "inInvoker"
    /\ thr' = [thr EXCEPT ![p].pc = "returned",
                          ![p].completed = @ + 1,
                          ![p].err = err,
                          ![p].logged = @ \o HeartbeatLog(thr[p].ctx, err)]
    /\ cnt' = [cnt EXCEPT !.completed = @ + 1, !.returned = @ + 1]
    /\ UNCHANGED <<ctxs, attached, res, polled>>

IdleThread == [pc |-> "idle"]

\* The state with the contexts cs attached by the calls at; the worker holds
\* a task out of tasks.
InitAt(tasks, cs, at) ==
    /\ polled \in tasks
    /\ ctxs = cs
    /\ attached = at
    /\ thr = [p \in Procs |-> IdleThread]
    /\ res = [op |-> "none"]
    /\ cnt = [started |-> 0, remote |-> 0, aborted |-> 0, calls |-> 0, completed |-> 0,
              returned |-> 0]

\* The state before any attachment.
InitWith(tasks) == InitAt(tasks, <<>>, <<>>)

\* The state once the worker has attached its polled task and a local
\* activity task, one context under the other or both under Background.
InitAttached(tasks) ==
    \E l \in LocalTasks, shape \in {"local under remote", "remote under local", "siblings"} :
        \/ /\ shape = "local under remote"
           /\ InitAt(tasks, <<RemoteCtx(0, polled), LocalCtx(1, l)>>,
                     <<RemoteCall(0, polled), LocalCall(1, l)>>)
        \/ /\ shape = "remote under local"
           /\ InitAt(tasks, <<LocalCtx(-1, l), RemoteCtx(1, polled)>>,
                     <<LocalCall(-1, l), RemoteCall(1, polled)>>)
        \/ /\ shape = "siblings"
           /\ InitAt(tasks, <<RemoteCtx(0, polled), LocalCtx(0, l)>>,
                     <<RemoteCall(0, polled), LocalCall(0, l)>>)

\* --------------------------------------------- the deadline specification

InitDeadline == InitWith(TimingTasks)

NextDeadline ==
    \/ \E parent \in {0} \cup Ctxs : WithActivityTask(parent, polled)
    \/ \E ctx \in {-1, 0} \cup Ctxs, task \in LocalTasks : WithLocalActivityTask(ctx, task)
    \/ \E c \in ActivityCtxs : CallGetActivityInfo(c)

SpecDeadline == InitDeadline /\ [][NextDeadline]_vars

\* ------------------------------------------ the environment specification

InitEnv == InitWith({BaseTask})

NextEnv ==
    \/ \E parent \in {0} \cup Ctxs, task \in EnvTasks : WithActivityTask(parent, task)
    \/ \E ctx \in {-1, 0} \cup Ctxs, task \in LocalTasks : WithLocalActivityTask(ctx, task)
    \/ \E parent \in {0} \cup Ctxs : WithCancel(parent)
    \/ \E c \in ActivityCtxs : CallGetActivityInfo(c)
    \/ \E c \in ActivityCtxs : CallHasHeartbeatDetails(c)
    \/ \E c \in ActivityCtxs, nOut \in OutSlots : CallGetHeartbeatDetails(c, nOut)
    \/ \E c \in ActivityCtxs : CallGetActivityLogger(c)
    \/ \E c \in ActivityCtxs : CallGetActivityMetricsScope(c)
    \/ \E c \in ActivityCtxs : CallGetWorkerStopChannel(c)

SpecEnv == InitEnv /\ [][NextEnv]_vars

\* --------------------------------------------- the heartbeat specification
\* One goroutine records heartbeats with every detail list.

InitHB == InitAttached(HBTasks)

NextHB ==
    \/ \E c \in ActivityCtxs, details \in DetailLists : RecordActivityHeartbeat(1, c, details)
    \/ \E err \in InvokerErrs : HeartbeatReturns(1, err)

SpecHB == InitHB /\ [][NextHB]_vars

\* ------------------------------------------- the concurrent specification
\* Several goroutines share the contexts, read them and record heartbeats.

Init == InitAttached(HBTasks)

Next ==
    \/ \E c \in ActivityCtxs : CallGetActivityInfo(c)
    \/ \E c \in ActivityCtxs : CallHasHeartbeatDetails(c)
    \/ \E c \in ActivityCtxs : CallGetHeartbeatDetails(c, 1)
    \/ \E c \in ActivityCtxs : CallGetActivityLogger(c)
    \/ \E c \in ActivityCtxs : CallGetActivityMetricsScope(c)
    \/ \E c \in ActivityCtxs : CallGetWorkerStopChannel(c)
    \/ \E p \in Procs, c \in ActivityCtxs, details \in FewDetails :
            RecordActivityHeartbeat(p, c, details)
    \/ \E p \in Procs, err \in InvokerErrs : HeartbeatReturns(p, err)

Spec == Init /\ [][Next]_vars

\* ================================================================ claims

\* The attachment call behind the environment context c carries: that of c,
\* or of the nearest ancestor made by an attachment.
RECURSIVE AttachOf(_)
AttachOf(c) == IF attached[c].kind = "derived" THEN AttachOf(attached[c].parent) ELSE attached[c]

RemoteCtxs == { c \in Ctxs : attached[c].kind = "remote" }
LocalCtxs == { c \in Ctxs : attached[c].kind = "local" }

\* The deadline the task's four timing fields call for.
ExpectedDeadline(t) ==
    IF t.ScheduleToCloseTimeout[1] > 0
    THEN Min(t.ScheduledTime[1] + t.ScheduleToCloseTimeout[1],
             t.StartedTime[1] + t.StartToCloseTimeout[1])
    ELSE t.StartedTime[1] + t.StartToCloseTimeout[1]

\* C1: for every task given to WithActivityTask, the deadline stored in the
\* environment and returned by GetActivityInfo is
\* min(scheduled + scheduleToCloseTimeout, started + startToCloseTimeout) when
\* scheduleToCloseTimeout > 0 and started + startToCloseTimeout when it is 0;
\* two attachments of the same task have the same deadline.
C1_Deadline ==
    /\ \A c \in RemoteCtxs :
          /\ ctxs[c].env[1].deadline = ExpectedDeadline(attached[c].task)
          /\ GetActivityInfo(c).Deadline = ExpectedDeadline(attached[c].task)
    /\ \A c, d \in RemoteCtxs :
          attached[c].task = attached[d].task
              => GetActivityInfo(c).Deadline = GetActivityInfo(d).Deadline
    /\ (res.op = "GetActivityInfo" /\ res.ctx \in RemoteCtxs)
          => res.val.Deadline = ExpectedDeadline(attached[res.ctx].task)

\* C1 witness: the same task attached twice, its schedule-to-close deadline
\* the earlier one, and GetActivityInfo called on the second context.
C1_Witness ==
    \E c, d \in RemoteCtxs :
        /\ c # d
        /\ attached[c].task = attached[d].task
        /\ attached[c].task.ScheduleToCloseTimeout[1] > 0
        /\ attached[c].task.ScheduledTime[1] + attached[c].task.ScheduleToCloseTimeout[1]
             < attached[c].task.StartedTime[1] + attached[c].task.StartToCloseTimeout[1]
        /\ res.op = "GetActivityInfo" /\ res.ctx = d
        /\ res.val.Deadline = attached[c].task.ScheduledTime[1]
                                 + attached[c].task.ScheduleToCloseTimeout[1]

\* C2 as claimed: for every environment attached by either flavor,
\* GetActivityInfo returns deadline >= startedTime, for all scheduled <= started
\* and non-negative timeouts.
C2_DeadlineNotBeforeStart ==
    \A c \in ActivityCtxs : GetActivityInfo(c).Deadline >= GetActivityInfo(c).StartedTime

\* C2 as amended: deadline >= startedTime for every local attachment, and for
\* every remote attachment whose scheduleToCloseTimeout is 0 or whose
\* scheduled + scheduleToCloseTimeout is not before started.
C2_DeadlineNotBeforeStartAmended ==
    /\ \A c \in LocalCtxs : GetActivityInfo(c).Deadline >= GetActivityInfo(c).StartedTime
    /\ \A c \in RemoteCtxs :
          LET t == attached[c].task
          IN  (\/ t.ScheduleToCloseTimeout[1] = 0
               \/ t.ScheduledTime[1] + t.ScheduleToCloseTimeout[1] >= t.StartedTime[1])
                  => GetActivityInfo(c).Deadline >= GetActivityInfo(c).StartedTime

\* C2 witness: a remote attachment started after it was scheduled, with both
\* timeouts positive and its schedule-to-close deadline exactly at the start,
\* next to a local attachment.
C2_Witness ==
    /\ LocalCtxs # {}
    /\ \E c \in RemoteCtxs :
          LET t == attached[c].task
          IN  /\ t.ScheduleToCloseTimeout[1] > 0 /\ t.StartToCloseTimeout[1] > 0
              /\ t.ScheduledTime[1] < t.StartedTime[1]
              /\ t.ScheduledTime[1] + t.ScheduleToCloseTimeout[1] = t.StartedTime[1]
              /\ GetActivityInfo(c).Deadline = GetActivityInfo(c).StartedTime

\* The previous-attempt heartbeat payload supplied when c's environment was attached.
SuppliedPayload(c) ==
    IF AttachOf(c).kind = "remote" THEN AttachOf(c).task.HeartbeatDetails ELSE None

\* C7: HasHeartbeatDetails is true iff a previous-attempt payload was supplied
\* at attachment; with none supplied (always so for a local attachment)
\* GetHeartbeatDetails fails with ErrNoData and the codec's decode is not
\* invoked; with one supplied it never returns ErrNoData, the codec decodes
\* that payload once and GetHeartbeatDetails returns the decode's outcome.
C7_HeartbeatDetails ==
    /\ \A c \in ActivityCtxs : HasHeartbeatDetails(c) <=> (SuppliedPayload(c) # None)
    /\ \A c \in ActivityCtxs : AttachOf(c).kind = "local" => ~HasHeartbeatDetails(c)
    /\ res.op = "HasHeartbeatDetails" => (res.val <=> (SuppliedPayload(res.ctx) # None))
    /\ res.op = "GetHeartbeatDetails" =>
          IF SuppliedPayload(res.ctx) = None
          THEN res.val.err = "ErrNoData" /\ res.val.decodes = <<>>
          ELSE /\ res.val.err # "ErrNoData"
               /\ Len(res.val.decodes) = 1
               /\ res.val.decodes[1].payload = SuppliedPayload(res.ctx)
               /\ res.val.decodes[1].dc = AttachOf(res.ctx).args.dataConverter
               /\ res.val.decodes[1].outs = res.outs
               /\ res.val.err = FromPayloads(res.val.decodes[1].dc,
                                             res.val.decodes[1].payload[1], res.outs)

\* C7 witness: GetHeartbeatDetails has just failed to decode a supplied
\* payload, while a local context over that remote one reports no details.
C7_Witness ==
    /\ res.op = "GetHeartbeatDetails"
    /\ SuppliedPayload(res.ctx) # None
    /\ res.val.err = "DecodeError"
    /\ \E c \in LocalCtxs : attached[c].parent = res.ctx /\ ~HasHeartbeatDetails(c)

\* What the accessors return on c.
View(c) ==
    [info   |-> GetActivityInfo(c),
     has    |-> HasHeartbeatDetails(c),
     hbErr  |-> GetHeartbeatDetails(c, 1).err,
     logger |-> GetActivityLogger(c),
     scope  |-> GetActivityMetricsScope(c),
     stop   |-> GetWorkerStopChannel(c)]

\* The accessors on c reflect the remote attachment a and nothing else.
ReflectsRemote(c, a) ==
    LET t == a.task  v == View(c)
    IN  /\ v.info.TaskToken = t.TaskToken
        /\ v.info.ActivityID = t.ActivityId
        /\ v.info.ActivityType = [Name |-> t.ActivityType]
        /\ v.info.WorkflowExecution = [ID |-> t.WorkflowExecution.WorkflowId,
                                        RunID |-> t.WorkflowExecution.RunId]
        /\ v.info.WorkflowType = [Name |-> t.WorkflowType]
        /\ v.info.WorkflowNamespace = t.WorkflowNamespace
        /\ v.info.Attempt = t.Attempt
        /\ v.info.TaskQueue = a.args.taskQueue
        /\ v.info.HeartbeatTimeout = t.HeartbeatTimeout[1]
        /\ v.info.ScheduledTime = t.ScheduledTime[1]
        /\ v.info.StartedTime = t.StartedTime[1]
        /\ v.has <=> (t.HeartbeatDetails # None)
        /\ (v.hbErr = "ErrNoData") <=> (t.HeartbeatDetails = None)
        /\ v.logger.base = a.args.logger
        /\ v.logger.fields = [ActivityID |-> t.ActivityId, ActivityType |-> t.ActivityType,
                               Attempt |-> t.Attempt, WorkflowType |-> t.WorkflowType,
                               WorkflowID |-> t.WorkflowExecution.WorkflowId,
                               RunID |-> t.WorkflowExecution.RunId]
        /\ v.scope = a.args.scope
        /\ v.stop = a.args.workerStopChannel
        /\ getActivityEnv(c).serviceInvoker = a.args.invoker
        /\ getActivityEnv(c).dataConverter = a.args.dataConverter
        /\ ~getActivityEnv(c).isLocalActivity

\* The accessors on c reflect the local attachment a and nothing else: what
\* a local attachment does not set is absent.
ReflectsLocal(c, a) ==
    LET t == a.task  v == View(c)
    IN  /\ v.info.TaskToken = "nil"
        /\ v.info.ActivityID = t.activityID
        /\ v.info.ActivityType = [Name |-> t.params.ActivityType]
        /\ v.info.WorkflowExecution = t.params.WorkflowInfo.WorkflowExecution
        /\ v.info.WorkflowType = t.params.WorkflowInfo.WorkflowType
        /\ v.info.WorkflowNamespace = t.params.WorkflowInfo.Namespace
        /\ v.info.Attempt = t.attempt
        /\ v.info.TaskQueue = t.params.WorkflowInfo.TaskQueueName
        /\ v.info.HeartbeatTimeout = 0
        /\ v.info.ScheduledTime = 0 /\ v.info.StartedTime = 0 /\ v.info.Deadline = 0
        /\ ~v.has
        /\ v.hbErr = "ErrNoData"
        /\ v.logger.base = a.args.logger
        /\ v.logger.fields = [ActivityID |-> t.activityID, ActivityType |-> t.params.ActivityType,
                               Attempt |-> t.attempt,
                               WorkflowType |-> t.params.WorkflowInfo.WorkflowType.Name,
                               WorkflowID |-> t.params.WorkflowInfo.WorkflowExecution.ID,
                               RunID |-> t.params.WorkflowInfo.WorkflowExecution.RunID]
        /\ v.scope = a.args.scope
        /\ v.stop = "nil"
        /\ getActivityEnv(c).serviceInvoker = "nil"
        /\ getActivityEnv(c).dataConverter = a.args.dataConverter
        /\ getActivityEnv(c).isLocalActivity

Reflects(c, a) == IF a.kind = "remote" THEN ReflectsRemote(c, a) ELSE ReflectsLocal(c, a)

\* C9: an attachment over a context that already carries an environment
\* shadows it without merging: the accessors on the new context reflect only
\* the new attachment (what it does not set is absent, not inherited), and the
\* accessors on every older context go on returning what they returned.
C9_Shadowing ==
    /\ [](\A c \in RemoteCtxs \cup LocalCtxs : Reflects(c, attached[c]))
    /\ [][\A c \in ActivityCtxs : View(c)' = View(c)]_vars

\* C9 witness: a local attachment over a remote one that carries a task
\* token, an invoker and a heartbeat payload; the accessors have been called
\* on the older context since.
C9_Witness ==
    \E c \in LocalCtxs :
        /\ attached[c].parent \in RemoteCtxs
        /\ HasHeartbeatDetails(attached[c].parent)
        /\ GetActivityInfo(attached[c].parent).TaskToken # "nil"
        /\ ~HasHeartbeatDetails(c)
        /\ GetActivityInfo(c).TaskToken = "nil"
        /\ res.op = "GetActivityInfo" /\ res.ctx = attached[c].parent

\* The goroutines that are in, or have ended, a RecordActivityHeartbeat on a
\* context whose environment a remote / a local attachment made.
RemoteHB == { p \in Procs : thr[p].pc # "idle" /\ AttachOf(thr[p].ctx).kind = "remote" }
LocalHB == { p \in Procs : thr[p].pc # "idle" /\ AttachOf(thr[p].ctx).kind = "local" }

\* C3: RecordActivityHeartbeat on a context made by the local attachment
\* makes no Service Invoker call and no codec encode call and returns
\* normally, whatever the details (unencodable ones included), whatever the
\* invoker is doing, however many calls came before.
C3_LocalNoop ==
    /\ [](\A p \in LocalHB :
             /\ thr[p].pc = "returned"
             /\ thr[p].encodes = <<>>
             /\ thr[p].sent = <<>>
             /\ thr[p].logged = <<>>)
    /\ [][\A p \in Procs :
             (thr'[p] # thr[p] /\ AttachOf(thr'[p].ctx).kind = "local")
                 => (cnt'.calls = cnt.calls /\ cnt'.aborted = cnt.aborted)]_vars

\* C3 witness: a heartbeat with an unencodable detail has returned on a local
\* context while another goroutine is inside the invoker.
C3_Witness ==
    \E p \in LocalHB, q \in RemoteHB :
        /\ thr[p].details = <<"chan">>
        /\ thr[p].pc = "returned"
        /\ thr[q].pc = "inInvoker"
        /\ cnt.started >= 2

\* C4: on a remote context the encode step is skipped and a nil payload
\* dispatched exactly when the details are empty or a single nil; for every
\* other list the codec is invoked once on the whole list and the payload
\* dispatched is the codec's result.
C4_Normalization ==
    \A p \in RemoteHB :
        LET d == thr[p].details
        IN  IF d = <<>> \/ d = <<"nil">>
            THEN /\ thr[p].encodes = <<>>
                 /\ Len(thr[p].sent) = 1
                 /\ thr[p].sent[1].payload = None
            ELSE /\ Len(thr[p].encodes) = 1
                 /\ thr[p].encodes[1].args = d
                 /\ thr[p].encodes[1].dc = AttachOf(thr[p].ctx).args.dataConverter
                 /\ thr[p].pc # "panicked" =>
                        /\ Len(thr[p].sent) = 1
                        /\ thr[p].sent[1].payload = thr[p].encodes[1].result.payload
                        /\ thr[p].sent[1].payload # None

\* C4 witness: a heartbeat whose two details are both nil has been encoded
\* and dispatched.
C4_Witness ==
    \E p \in RemoteHB :
        /\ thr[p].details = <<"nil", "nil">>
        /\ thr[p].pc = "returned"
        /\ thr[p].sent[1].payload = Some(<< <<"dc1", "nil">>, <<"dc1", "nil">> >>)

\* C5: on a remote context, when the invoker's heartbeat call returns an
\* error (the activity-canceled error included) RecordActivityHeartbeat
\* returns normally and exactly one debug entry carrying that error is written
\* through the environment's logger; when it returns no error nothing is logged.
C5_InvokerErrorSwallowed ==
    \A p \in RemoteHB :
        /\ thr[p].completed = 1 => thr[p].pc = "returned"
        /\ thr[p].completed = 0 => thr[p].logged = <<>>
        /\ (thr[p].completed = 1 /\ thr[p].err = "nil") => thr[p].logged = <<>>
        /\ (thr[p].completed = 1 /\ thr[p].err # "nil") =>
              /\ Len(thr[p].logged) = 1
              /\ thr[p].logged[1].level = "debug"
              /\ thr[p].logged[1].err = thr[p].err
              /\ thr[p].logged[1].logger.base = AttachOf(thr[p].ctx).args.logger
              /\ thr[p].logged[1].logger.fields.Attempt = AttachOf(thr[p].ctx).task.Attempt

\* C5 witness: the invoker answered a heartbeat with the activity-canceled
\* error and the invocation has returned with one log entry.
C5_Witness ==
    \E p \in RemoteHB :
        /\ thr[p].pc = "returned"
        /\ thr[p].err = "ActivityTaskCanceledError"
        /\ Len(thr[p].logged) = 1

\* C6: on a remote context, when the codec fails to encode the details,
\* RecordActivityHeartbeat panics with the encoding error and makes no
\* heartbeat call on the Service Invoker.
C6_EncodeFailurePanics ==
    \A p \in RemoteHB :
        (Len(thr[p].encodes) = 1 /\ thr[p].encodes[1].result.err # "nil") =>
            /\ thr[p].pc = "panicked"
            /\ thr[p].err = thr[p].encodes[1].result.err
            /\ thr[p].sent = <<>>
            /\ thr[p].completed = 0
            /\ thr[p].logged = <<>>

\* C6 witness: a heartbeat with one encodable and one unencodable detail has
\* panicked, after an earlier invocation.
C6_Witness ==
    \E p \in RemoteHB :
        /\ thr[p].details = <<"progress", "chan">>
        /\ thr[p].pc = "panicked"
        /\ thr[p].err = "EncodingFailure"
        /\ cnt.started = 2

\* The ActivityInfo the attachment call a calls for.
ExpectedInfo(a) ==
    IF a.kind = "remote"
    THEN [ActivityID        |-> a.task.ActivityId,
          ActivityType      |-> [Name |-> a.task.ActivityType],
          TaskToken         |-> a.task.TaskToken,
          WorkflowExecution |-> [ID |-> a.task.WorkflowExecution.WorkflowId,
                                 RunID |-> a.task.WorkflowExecution.RunId],
          HeartbeatTimeout  |-> a.task.HeartbeatTimeout[1],
          Deadline          |-> ExpectedDeadline(a.task),
          ScheduledTime     |-> a.task.ScheduledTime[1],
          StartedTime       |-> a.task.StartedTime[1],
          TaskQueue         |-> a.args.taskQueue,
          Attempt           |-> a.task.Attempt,
          WorkflowType      |-> [Name |-> a.task.WorkflowType],
          WorkflowNamespace |-> a.task.WorkflowNamespace]
    ELSE [ActivityID        |-> a.task.activityID,
          ActivityType      |-> [Name |-> a.task.params.ActivityType],
          TaskToken         |-> "nil",
          WorkflowExecution |-> a.task.params.WorkflowInfo.WorkflowExecution,
          HeartbeatTimeout  |-> 0,
          Deadline          |-> 0,
          ScheduledTime     |-> 0,
          StartedTime       |-> 0,
          TaskQueue         |-> a.task.params.WorkflowInfo.TaskQueueName,
          Attempt           |-> a.task.attempt,
          WorkflowType      |-> a.task.params.WorkflowInfo.WorkflowType,
          WorkflowNamespace |-> a.task.params.WorkflowInfo.Namespace]

\* C8: through every interleaving of accessor calls and RecordActivityHeartbeat
\* calls on the attached contexts the environments stay as attached, and
\* GetActivityInfo returns the values supplied at attachment, the task's
\* attempt and workflow id / run id among them.
C8_EnvironmentImmutable ==
    /\ [](\A c \in ActivityCtxs : GetActivityInfo(c) = ExpectedInfo(AttachOf(c)))
    /\ [](res.op = "GetActivityInfo" => res.val = ExpectedInfo(AttachOf(res.ctx)))
    /\ [][ctxs' = ctxs]_vars

\* C8 witness: GetActivityInfo has returned attempt 2 and the task's workflow
\* id and run id on the remote context while one heartbeat on it is inside the
\* invoker and another has returned with an error.
C8_Witness ==
    /\ res.op = "GetActivityInfo"
    /\ res.ctx \in RemoteCtxs
    /\ res.val.Attempt = 2
    /\ res.val.WorkflowExecution = [ID |-> "wf1", RunID |-> "run1"]
    /\ \E p, q \in RemoteHB :
          /\ thr[p].ctx = res.ctx /\ thr[p].pc = "inInvoker"
          /\ thr[q].ctx = res.ctx /\ thr[q].pc = "returned" /\ thr[q].err # "nil"

\* C10: on a remote context every RecordActivityHeartbeat that does not abort
\* on encoding makes exactly one heartbeat call on the Service Invoker, with
\* skipBatching false, whether the call succeeds or fails, and returns only
\* once that call has completed; the invoker's calls number the invocations
\* that did not abort.
C10_OneCallPerHeartbeat ==
    /\ \A p \in RemoteHB :
          thr[p].pc # "panicked" =>
              /\ Len(thr[p].sent) = 1
              /\ thr[p].sent[1].skipBatching = FALSE
              /\ thr[p].sent[1].invoker = AttachOf(thr[p].ctx).args.invoker
              /\ thr[p].pc = "returned" => thr[p].completed = 1
              /\ thr[p].pc = "inInvoker" => thr[p].completed = 0
    /\ cnt.calls = cnt.remote - cnt.aborted
    /\ cnt.returned <= cnt.completed
    /\ cnt.completed <= cnt.calls
    /\ (\A p \in Procs : thr[p].pc # "inInvoker") =>
          (cnt.completed = cnt.calls /\ cnt.returned = cnt.calls)

\* C10 witness: two heartbeats were recorded concurrently on the remote
\* context; the invoker failed one and accepted the other, and both returned.
C10_Witness ==
    /\ cnt.calls = 2 /\ cnt.returned = 2
    /\ \E p, q \in RemoteHB :
          /\ p # q
          /\ thr[p].pc = "returned" /\ thr[p].err = "ServiceError"
          /\ thr[q].pc = "returned" /\ thr[q].err = "nil"

====
